---- MODULE Spec2Model ----
(***************************************************************************)
(* Code-switching dataset builders.                                        *)
(*                                                                         *)
(* Three state machines are modelled:                                      *)
(*   Spec          main() of the four 2.code_switching.py scripts          *)
(*                 ("noun", "reverse", "random", "multi"): argument        *)
(*                 handling, logging set-up, CSV load, sampling, the mask  *)
(*                 stage, the fill stage and the CSV write, with every     *)
(*                 invoke_claude call as an issue step and a return/raise  *)
(*                 step;                                                   *)
(*   SpecRandom    insert_placeholders_random as a function of a text, a   *)
(*                 rate and a random sample;                               *)
(*   SpecBelebele  the Belebele section of 1.prepare_datasets.py.          *)
(*                                                                         *)
(* A text is a sequence of atoms; the atom " " is whitespace, every other  *)
(* atom is a piece of a word.  pandas apply/progress_apply is taken as     *)
(* documented: the function is called once per row, in index order.        *)
(***************************************************************************)
EXTENDS Integers, Sequences, FiniteSets, TLC

VARIABLES
    script,            \* which 2.code_switching.py is running
    args,              \* argparse namespace
    csv,               \* rows of the input CSV file
    hasPlaceholderCol, \* the input CSV already has a 'placeholder_text' column
    pc,                \* position in main()
    exc,               \* exception that left main(), "" if none
    dirCreated,        \* os.makedirs(output_dir) has run
    logCreated,        \* logging.FileHandler(log_file) has run
    csvRead,           \* pd.read_csv(input_csv) has run
    df,                \* the dataframe: input row numbers kept, in order
    i,                 \* position in df of the row the running apply is at
    acc,               \* results the running apply has collected
    placeholder_text,  \* df['placeholder_text'] (df['masked_target'])
    csw,               \* df[args.csw_column_name]
    calls,             \* every invoke_claude call, in issue order
    outFile,           \* rows of the written output CSV
    rtext, rrate, rpc, rindices, rout,   \* insert_placeholders_random
    bRecords, bk, combined_df, bsaved    \* Belebele preparation

pvars == <<script, args, csv, hasPlaceholderCol, pc, exc, dirCreated, logCreated,
           csvRead, df, i, acc, placeholder_text, csw, calls, outFile>>
rvars == <<rtext, rrate, rpc, rindices, rout>>
bvars == <<bRecords, bk, combined_df, bsaved>>
vars == <<pvars, rvars, bvars>>

----------------------------------------------------------------------------
(* Bounds *)

MaxRows == 2
MaxSample == 2
MaxWords == 10
MaxRecords == 3

----------------------------------------------------------------------------
(* Texts *)

SP == " "
PLACEHOLDER == "#######"

Min(a, b) == IF a < b THEN a ELSE b
Max(a, b) == IF a > b THEN a ELSE b

\* str.split(): the maximal runs of non-whitespace, in order
RECURSIVE SplitFrom(_, _, _)
SplitFrom(text, k, cur) ==
    IF k > Len(text)
    THEN IF cur = <<>> THEN <<>> ELSE <<cur>>
    ELSE IF text[k] = SP
         THEN IF cur = <<>>
              THEN SplitFrom(text, k + 1, <<>>)
              ELSE <<cur>> \o SplitFrom(text, k + 1, <<>>)
         ELSE SplitFrom(text, k + 1, Append(cur, text[k]))

Split(text) == SplitFrom(text, 1, <<>>)

\* ' '.join(words)
RECURSIVE Join(_)
Join(words) ==
    IF words = <<>> THEN <<>>
    ELSE IF Len(words) = 1 THEN words[1]
    ELSE words[1] \o <<SP>> \o Join(Tail(words))

\* str.strip(): leading and trailing whitespace removed
RECURSIVE LStrip(_)
LStrip(text) ==
    IF text # <<>> /\ Head(text) = SP THEN LStrip(Tail(text)) ELSE text

RECURSIVE RStrip(_)
RStrip(text) ==
    IF text # <<>> /\ text[Len(text)] = SP
    THEN RStrip(SubSeq(text, 1, Len(text) - 1))
    ELSE text

Strip(text) == RStrip(LStrip(text))

\* str.split(','): one field more than there are commas
RECURSIVE SplitCommaFrom(_, _, _)
SplitCommaFrom(text, k, cur) ==
    IF k > Len(text) THEN <<cur>>
    ELSE IF text[k] = ","
         THEN <<cur>> \o SplitCommaFrom(text, k + 1, <<>>)
         ELSE SplitCommaFrom(text, k + 1, Append(cur, text[k]))

SplitComma(text) == SplitCommaFrom(text, 1, <<>>)

\* [c.strip() for c in s.split(',')]
StripAll(fields) == [k \in 1..Len(fields) |-> Strip(fields[k])]

----------------------------------------------------------------------------
(* insert_placeholders_random *)

\* max(1, int(len(words) * rate)) with rate = num/den
PlaceholderCount_OffByOne(n, num, den) == Max(1, ((n * num) \div den) + 1)

PlaceholderCount(n, num, den) == Max(1, (n * num) \div den)

\* random.choices: draws with replacement, so positions may repeat
RandomSample_WithReplacement(n, k) ==
    {S \in SUBSET (0..(n - 1)) : Cardinality(S) >= 1 /\ Cardinality(S) <= k}

\* random.sample(range(n), k): k distinct positions; ValueError (no result)
\* when k > n.  The order of the sample does not change what the loop writes.
RandomSample(n, k) == {S \in SUBSET (0..(n - 1)) : Cardinality(S) = k}

\* for i in indices: words[i] = '#######'   (Python positions count from 0)
MarkWords(words, indices) ==
    [k \in 1..Len(words) |-> IF (k - 1) \in indices THEN <<PLACEHOLDER>> ELSE words[k]]

\* the texts insert_placeholders_random(text, rate) can return
insert_placeholders_random(text, num, den) ==
    LET words == Split(text)
        count == PlaceholderCount(Len(words), num, den)
    IN  {Join(MarkWords(words, indices)) : indices \in RandomSample(Len(words), count)}

----------------------------------------------------------------------------
(* Inputs of main() *)

Scripts == {"noun", "reverse", "random", "multi"}

SrcTexts == {<<SP>>, <<"a">>, <<"a", SP, SP, "b">>}
TgtTexts == {<<"t">>, <<"u">>}
Rows == [src : SrcTexts, tgt : TgtTexts, tgt2 : {<<"v">>}, ph : {<<PLACEHOLDER, SP, "b">>}]
Csvs == UNION {[1..n -> Rows] : n \in 0..MaxRows}

\* --sample_size: type=int, default=None
NoSampleSize == [given |-> FALSE, n |-> 0]
SampleSizes == {NoSampleSize} \cup [given : {TRUE}, n : (-1)..MaxSample]

\* --target_columns / --target_languages of the multi-language script
TargetColumnsArgs == {<<"c1">>, <<"c1", ",", SP, "c2">>}
TargetLanguagesArgs == {<<"L1">>, <<"L1", ",", "L2">>}

Responses == {<<"x">>, <<SP, PLACEHOLDER, SP, "y", SP>>}

\* row[col]
Column(row, col) == IF col = <<"c2">> THEN row.tgt2 ELSE row.tgt

target_cols == StripAll(SplitComma(args.target_columns))
languages == StripAll(SplitComma(args.target_languages))

----------------------------------------------------------------------------
(* Prompts *)

Prompt(template, text, ph, parallel, langs) ==
    [template |-> template, text |-> text, placeholder_text |-> ph,
     parallel |-> parallel, languages |-> langs]

get_switching_points(text) ==
    Prompt("get_switching_points", text, <<>>, <<>>, <<>>)

mask_target_points(text, target_language) ==
    Prompt("mask_target_points", text, <<>>, <<>>, <<target_language>>)

code_switch_text(ph, target_text, target_language) ==
    Prompt("code_switch_text", <<>>, ph, <<target_text>>, <<target_language>>)

insert_english_words(ph, english_text, target_language) ==
    Prompt("insert_english_words", <<>>, ph, <<english_text>>, <<target_language>>)

code_switch_multi(ph, target_texts, langs) ==
    LET m == Min(Len(target_texts), Len(langs))     \* zip(languages, target_texts)
    IN  Prompt("code_switch_multi", <<>>, ph, SubSeq(target_texts, 1, m), SubSeq(langs, 1, m))

----------------------------------------------------------------------------
(* Sampling *)

\* DataFrame.head(n): the first n rows; for n < 0 all but the last -n rows
HeadRows(rows, n) ==
    IF n >= 0 THEN SubSeq(rows, 1, Min(n, Len(rows)))
    ELSE SubSeq(rows, 1, Max(0, Len(rows) + n))

\* the text drop_duplicates(subset=...) compares
DedupKey(r) == IF script = "reverse" THEN csv[r].tgt ELSE csv[r].src

\* DataFrame.drop_duplicates(subset=col): keep='first'
RECURSIVE DropDuplicatesFrom(_, _, _)
DropDuplicatesFrom(rows, k, seen) ==
    IF k > Len(rows) THEN <<>>
    ELSE IF DedupKey(rows[k]) \in seen
         THEN DropDuplicatesFrom(rows, k + 1, seen)
         ELSE <<rows[k]>> \o DropDuplicatesFrom(rows, k + 1, seen \cup {DedupKey(rows[k])})

DropDuplicates(rows) == DropDuplicatesFrom(rows, 1, {})

\* "if args.sample_size:" is false for None and for 0
SampleRequested == args.sample_size.given /\ args.sample_size.n # 0

Sampled(rows) ==
    IF ~SampleRequested THEN rows
    ELSE IF script = "random" THEN HeadRows(rows, args.sample_size.n)
    ELSE HeadRows(DropDuplicates(rows), args.sample_size.n)

----------------------------------------------------------------------------
(* main() *)

PInit ==
    /\ script \in Scripts
    /\ csv \in Csvs
    /\ \E ss \in SampleSizes, tc \in TargetColumnsArgs, tl \in TargetLanguagesArgs :
          /\ script # "multi" => (tc = <<"c1">> /\ tl = <<"L1">>)
          /\ args = [sample_size |-> ss, target_columns |-> tc, target_languages |-> tl]
    /\ hasPlaceholderCol \in (IF script = "multi" THEN BOOLEAN ELSE {FALSE})
    /\ pc = "start"
    /\ exc = ""
    /\ dirCreated = FALSE
    /\ logCreated = FALSE
    /\ csvRead = FALSE
    /\ df = <<>>
    /\ i = 1
    /\ acc = <<>>
    /\ placeholder_text = <<>>
    /\ csw = <<>>
    /\ calls = <<>>
    /\ outFile = <<>>

Fail(e) == pc' = "failed" /\ exc' = e

\* the multi-language script raises ValueError when the two lists differ in length
ParseArgs_NoCheck ==
    /\ pc = "start"
    /\ pc' = "setup"
    /\ UNCHANGED <<script, args, csv, hasPlaceholderCol, exc, dirCreated, logCreated,
                   csvRead, df, i, acc, placeholder_text, csw, calls, outFile>>

ParseArgs ==
    /\ pc = "start"
    /\ IF script = "multi" /\ Len(target_cols) # Len(languages)
       THEN Fail("ValueError")
       ELSE pc' = "setup" /\ exc' = exc
    /\ UNCHANGED <<script, args, csv, hasPlaceholderCol, dirCreated, logCreated,
                   csvRead, df, i, acc, placeholder_text, csw, calls, outFile>>

\* os.makedirs(output_dir), logging.FileHandler(log_file)
SetupLogging ==
    /\ pc = "setup"
    /\ dirCreated' = TRUE
    /\ logCreated' = TRUE
    /\ pc' = "load"
    /\ UNCHANGED <<script, args, csv, hasPlaceholderCol, exc, csvRead, df, i, acc,
                   placeholder_text, csw, calls, outFile>>

\* df = pd.read_csv(args.input_csv)
ReadCsv ==
    /\ pc = "load"
    /\ csvRead' = TRUE
    /\ df' = [k \in 1..Len(csv) |-> k]
    /\ pc' = "sample"
    /\ UNCHANGED <<script, args, csv, hasPlaceholderCol, exc, dirCreated, logCreated,
                   i, acc, placeholder_text, csw, calls, outFile>>

\* pd.read_csv raises (logged and re-raised, or propagated)
ReadCsvFail ==
    /\ pc = "load"
    /\ Fail("read_csv error")
    /\ UNCHANGED <<script, args, csv, hasPlaceholderCol, dirCreated, logCreated,
                   csvRead, df, i, acc, placeholder_text, csw, calls, outFile>>

\* if args.sample_size: df = df[.drop_duplicates(subset=...)].head(args.sample_size)
SampleRows ==
    /\ pc = "sample"
    /\ df' = Sampled(df)
    /\ pc' = "mask"
    /\ i' = 1
    /\ acc' = <<>>
    /\ UNCHANGED <<script, args, csv, hasPlaceholderCol, exc, dirCreated, logCreated,
                   csvRead, placeholder_text, csw, calls, outFile>>

----------------------------------------------------------------------------
(* invoke_claude *)

Call(stage, row, prompt) ==
    [stage |-> stage, row |-> row, prompt |-> prompt, status |-> "outstanding",
     response |-> <<>>]

\* the last call of the log, completed
Completed(status, response) ==
    [calls EXCEPT ![Len(calls)].status = status, ![Len(calls)].response = response]

----------------------------------------------------------------------------
(* Step 1: the mask stage *)

\* the scripts whose mask stage asks the service; the multi-language script
\* skips the stage when the input already has a 'placeholder_text' column
MaskByLLM_NoSkip == script \in {"noun", "reverse", "multi"}

MaskByLLM ==
    \/ script \in {"noun", "reverse"}
    \/ script = "multi" /\ ~hasPlaceholderCol

\* the prompt of the masking call for the row at position r of df
MaskPrompt(r) ==
    IF script = "reverse"
    THEN mask_target_points(csv[df[r]].tgt, languages[1])
    ELSE get_switching_points(csv[df[r]].src)

\* a call that does not block its caller
MaskIssue_NoBlock ==
    /\ pc = "mask"
    /\ MaskByLLM
    /\ i <= Len(df)
    /\ calls' = Append(calls, Call("mask", i, MaskPrompt(i)))
    /\ UNCHANGED <<script, args, csv, hasPlaceholderCol, pc, exc, dirCreated, logCreated,
                   csvRead, df, i, acc, placeholder_text, csw, outFile>>

MaskIssue ==
    /\ pc = "mask"
    /\ MaskByLLM
    /\ i <= Len(df)
    /\ calls' = Append(calls, Call("mask", i, MaskPrompt(i)))
    /\ pc' = "mask_call"
    /\ UNCHANGED <<script, args, csv, hasPlaceholderCol, exc, dirCreated, logCreated,
                   csvRead, df, i, acc, placeholder_text, csw, outFile>>

\* return response.strip()
MaskReturn ==
    /\ pc = "mask_call"
    /\ \E response \in Responses :
          /\ calls' = Completed("returned", response)
          /\ acc' = Append(acc, Strip(response))
    /\ i' = i + 1
    /\ pc' = "mask"
    /\ UNCHANGED <<script, args, csv, hasPlaceholderCol, exc, dirCreated, logCreated,
                   csvRead, df, placeholder_text, csw, outFile>>

\* an exception handler that logs the error and goes on with the next row
MaskRaise_Swallow ==
    /\ pc = "mask_call"
    /\ calls' = Completed("raised", <<>>)
    /\ acc' = Append(acc, <<>>)
    /\ i' = i + 1
    /\ pc' = "mask"
    /\ UNCHANGED <<script, args, csv, hasPlaceholderCol, exc, dirCreated, logCreated,
                   csvRead, df, placeholder_text, csw, outFile>>

\* invoke_claude raises: nothing catches it
MaskRaise ==
    /\ pc = "mask_call"
    /\ calls' = Completed("raised", <<>>)
    /\ Fail("invoke_claude error")
    /\ UNCHANGED <<script, args, csv, hasPlaceholderCol, dirCreated, logCreated,
                   csvRead, df, i, acc, placeholder_text, csw, outFile>>

\* the random script masks locally: insert_placeholders_random(txt, rate=0.2)
MaskRandom ==
    /\ pc = "mask"
    /\ script = "random"
    /\ i <= Len(df)
    /\ LET outs == insert_placeholders_random(csv[df[i]].src, 1, 5)
       IN  IF outs = {}
           THEN Fail("ValueError") /\ UNCHANGED <<i, acc>>
           ELSE /\ \E out \in outs : acc' = Append(acc, out)
                /\ i' = i + 1
                /\ UNCHANGED <<pc, exc>>
    /\ UNCHANGED <<script, args, csv, hasPlaceholderCol, dirCreated, logCreated,
                   csvRead, df, placeholder_text, csw, calls, outFile>>

\* 'placeholder_text' in df.columns: the stage is skipped
SkipMask ==
    /\ pc = "mask"
    /\ script = "multi"
    /\ hasPlaceholderCol
    /\ placeholder_text' = [k \in 1..Len(df) |-> csv[df[k]].ph]
    /\ pc' = "fill"
    /\ UNCHANGED <<script, args, csv, hasPlaceholderCol, exc, dirCreated, logCreated,
                   csvRead, df, i, acc, csw, calls, outFile>>

\* df['placeholder_text'] = ... : the column is assigned when apply has ended
MaskDone ==
    /\ pc = "mask"
    /\ MaskByLLM \/ script = "random"
    /\ i > Len(df)
    /\ placeholder_text' = acc
    /\ pc' = "fill"
    /\ i' = 1
    /\ acc' = <<>>
    /\ UNCHANGED <<script, args, csv, hasPlaceholderCol, exc, dirCreated, logCreated,
                   csvRead, df, csw, calls, outFile>>

----------------------------------------------------------------------------
(* Step 2: the fill stage *)

\* the row's parallel text(s): [row[col] for col in target_cols]
TargetTexts(r) == [k \in 1..Len(target_cols) |-> Column(csv[df[r]], target_cols[k])]

\* the fill prompt built from the first row instead of the current one
FillPrompt_FirstRow(r) ==
    IF script = "reverse"
    THEN insert_english_words(placeholder_text[r], csv[df[1]].src, languages[1])
    ELSE IF script = "multi"
    THEN code_switch_multi(placeholder_text[r], TargetTexts(1), languages)
    ELSE code_switch_text(placeholder_text[r], csv[df[1]].tgt, languages[1])

\* the prompt of the filling call for the row at position r of df
FillPrompt(r) ==
    IF script = "reverse"
    THEN insert_english_words(placeholder_text[r], csv[df[r]].src, languages[1])
    ELSE IF script = "multi"
    THEN code_switch_multi(placeholder_text[r], TargetTexts(r), languages)
    ELSE code_switch_text(placeholder_text[r], csv[df[r]].tgt, languages[1])

FillIssue ==
    /\ pc = "fill"
    /\ i <= Len(df)
    /\ calls' = Append(calls, Call("fill", i, FillPrompt(i)))
    /\ pc' = "fill_call"
    /\ UNCHANGED <<script, args, csv, hasPlaceholderCol, exc, dirCreated, logCreated,
                   csvRead, df, i, acc, placeholder_text, csw, outFile>>

FillReturn ==
    /\ pc = "fill_call"
    /\ \E response \in Responses :
          /\ calls' = Completed("returned", response)
          /\ acc' = Append(acc, Strip(response))
    /\ i' = i + 1
    /\ pc' = "fill"
    /\ UNCHANGED <<script, args, csv, hasPlaceholderCol, exc, dirCreated, logCreated,
                   csvRead, df, placeholder_text, csw, outFile>>

FillRaise ==
    /\ pc = "fill_call"
    /\ calls' = Completed("raised", <<>>)
    /\ Fail("invoke_claude error")
    /\ UNCHANGED <<script, args, csv, hasPlaceholderCol, dirCreated, logCreated,
                   csvRead, df, i, acc, placeholder_text, csw, outFile>>

\* df[args.csw_column_name] = ...
FillDone ==
    /\ pc = "fill"
    /\ i > Len(df)
    /\ csw' = acc
    /\ pc' = "save"
    /\ UNCHANGED <<script, args, csv, hasPlaceholderCol, exc, dirCreated, logCreated,
                   csvRead, df, i, acc, placeholder_text, calls, outFile>>

\* df.to_csv(output_path, index=False)
Save ==
    /\ pc = "save"
    /\ outFile' = <<[k \in 1..Len(df) |->
                       [row |-> df[k], placeholder_text |-> placeholder_text[k],
                        csw |-> csw[k]]]>>
    /\ pc' = "done"
    /\ UNCHANGED <<script, args, csv, hasPlaceholderCol, exc, dirCreated, logCreated,
                   csvRead, df, i, acc, placeholder_text, csw, calls>>

----------------------------------------------------------------------------
(* insert_placeholders_random on its own *)

Letters == <<"a", "b", "c">>

\* the k-th word of an input text: a letter, or a word that already reads '#######'
InputWord(k, marked) ==
    IF k \in marked THEN <<PLACEHOLDER>> ELSE <<Letters[(k % 3) + 1]>>

Spaces(w) == [k \in 1..w |-> SP]

\* n words, w spaces between them, w - 1 spaces before and after
RECURSIVE RenderFrom(_, _, _, _)
RenderFrom(k, n, marked, w) ==
    IF k > n THEN Spaces(w - 1)
    ELSE (IF k = 1 THEN Spaces(w - 1) ELSE Spaces(w))
         \o InputWord(k, marked) \o RenderFrom(k + 1, n, marked, w)

MaxMarked == 1
MaxSpaces == 2

RandomTexts ==
    {RenderFrom(1, n, marked, w) :
        n \in 0..MaxWords,
        marked \in {m \in SUBSET (1..MaxWords) : Cardinality(m) <= MaxMarked},
        w \in 1..MaxSpaces}

\* rate as <<numerator, denominator>>; main() passes 0.2.  For these rates
\* (0.25 and 1.0 are exact in binary, 0.2 is rounded up by less than one part
\* in 10^16) int(len(words) * rate) in floating point equals the exact floor.
Rates == {<<1, 5>>, <<1, 4>>, <<1, 1>>}

RInit ==
    /\ rtext \in RandomTexts
    /\ rrate \in Rates
    /\ rpc = "call"
    /\ rindices = {}
    /\ rout = <<>>

\* indices = random.sample(...); the loop; return ' '.join(words)
RandomInsert ==
    /\ rpc = "call"
    /\ LET words == Split(rtext)
           count == PlaceholderCount(Len(words), rrate[1], rrate[2])
       IN  \E indices \in RandomSample(Len(words), count) :
              /\ rindices' = indices
              /\ rout' = Join(MarkWords(words, indices))
    /\ rpc' = "returned"
    /\ UNCHANGED <<rtext, rrate>>

\* random.sample raises ValueError: the sample is larger than the population
RandomInsertError ==
    /\ rpc = "call"
    /\ LET words == Split(rtext)
           count == PlaceholderCount(Len(words), rrate[1], rrate[2])
       IN  RandomSample(Len(words), count) = {}
    /\ rpc' = "ValueError"
    /\ UNCHANGED <<rtext, rrate, rindices, rout>>

----------------------------------------------------------------------------
(* Belebele section of 1.prepare_datasets.py *)

subsets == <<"eng_Latn", "fra_Latn", "deu_Latn", "arb_Arab", "zho_Hans">>

MaxLinks == 2
MaxQuestions == 2

\* a test record: the passage it belongs to (its 'link') and which question
\* about that passage it is; the text columns are translations of that question
BelebeleRecords == [link : 1..MaxLinks, question : 1..MaxQuestions]

Orders(S) ==
    {o \in [1..Cardinality(S) -> S] : \A a, b \in 1..Cardinality(S) : a # b => o[a] # o[b]}

\* insert r after the last row whose link is <= r.link
RECURSIVE InsertByLink(_, _)
InsertByLink(sorted, r) ==
    IF sorted = <<>> THEN <<r>>
    ELSE IF sorted[Len(sorted)].link <= r.link THEN Append(sorted, r)
    ELSE Append(InsertByLink(SubSeq(sorted, 1, Len(sorted) - 1), r), sorted[Len(sorted)])

\* sort_values(by='link'): rows with equal links keep the order they came in
\* (the default quicksort falls back to insertion sort on arrays this small)
RECURSIVE SortValuesByLink(_)
SortValuesByLink(rows) ==
    IF rows = <<>> THEN <<>>
    ELSE InsertByLink(SortValuesByLink(SubSeq(rows, 1, Len(rows) - 1)), rows[Len(rows)])

BInit ==
    /\ bRecords \in {R \in SUBSET BelebeleRecords : R # {} /\ Cardinality(R) <= MaxRecords}
    /\ bk = 1
    /\ combined_df = <<>>
    /\ bsaved = FALSE

\* one turn of the loop: load the subset's test split (its records come in some
\* order), sort by link, reset the index, concat as new columns
LoadSubset ==
    /\ bk <= Len(subsets)
    /\ \E order \in Orders(bRecords) :
          combined_df' = Append(combined_df,
                                [subset |-> subsets[bk], rows |-> SortValuesByLink(order)])
    /\ bk' = bk + 1
    /\ UNCHANGED <<bRecords, bsaved>>

\* combined_df.to_csv('./datasets/belebele.csv', index=False)
SaveBelebele ==
    /\ bk > Len(subsets)
    /\ ~bsaved
    /\ bsaved' = TRUE
    /\ UNCHANGED <<bRecords, bk, combined_df>>

----------------------------------------------------------------------------
(* Specifications *)

PIdle ==
    /\ script = "noun"
    /\ args = [sample_size |-> NoSampleSize, target_columns |-> <<"c1">>,
               target_languages |-> <<"L1">>]
    /\ csv = <<>>
    /\ hasPlaceholderCol = FALSE
    /\ pc = "idle"
    /\ exc = ""
    /\ dirCreated = FALSE
    /\ logCreated = FALSE
    /\ csvRead = FALSE
    /\ df = <<>>
    /\ i = 1
    /\ acc = <<>>
    /\ placeholder_text = <<>>
    /\ csw = <<>>
    /\ calls = <<>>
    /\ outFile = <<>>

RIdle ==
    /\ rtext = <<>>
    /\ rrate = <<1, 5>>
    /\ rpc = "idle"
    /\ rindices = {}
    /\ rout = <<>>

BIdle ==
    /\ bRecords = {}
    /\ bk = Len(subsets) + 1
    /\ combined_df = <<>>
    /\ bsaved = TRUE

Init == PInit /\ RIdle /\ BIdle
Next ==
    \/ ParseArgs /\ UNCHANGED <<rvars, bvars>>
    \/ SetupLogging /\ UNCHANGED <<rvars, bvars>>
    \/ ReadCsv /\ UNCHANGED <<rvars, bvars>>
    \/ ReadCsvFail /\ UNCHANGED <<rvars, bvars>>
    \/ SampleRows /\ UNCHANGED <<rvars, bvars>>
    \/ MaskIssue /\ UNCHANGED <<rvars, bvars>>
    \/ MaskReturn /\ UNCHANGED <<rvars, bvars>>
    \/ MaskRaise /\ UNCHANGED <<rvars, bvars>>
    \/ MaskRandom /\ UNCHANGED <<rvars, bvars>>
    \/ SkipMask /\ UNCHANGED <<rvars, bvars>>
    \/ MaskDone /\ UNCHANGED <<rvars, bvars>>
    \/ FillIssue /\ UNCHANGED <<rvars, bvars>>
    \/ FillReturn /\ UNCHANGED <<rvars, bvars>>
    \/ FillRaise /\ UNCHANGED <<rvars, bvars>>
    \/ FillDone /\ UNCHANGED <<rvars, bvars>>
    \/ Save /\ UNCHANGED <<rvars, bvars>>
Spec == Init /\ [][Next]_vars

InitRandom == RInit /\ PIdle /\ BIdle
NextRandom ==
    \/ RandomInsert /\ UNCHANGED <<pvars, bvars>>
    \/ RandomInsertError /\ UNCHANGED <<pvars, bvars>>
SpecRandom == InitRandom /\ [][NextRandom]_vars

InitBelebele == BInit /\ PIdle /\ RIdle
NextBelebele ==
    \/ LoadSubset /\ UNCHANGED <<pvars, rvars>>
    \/ SaveBelebele /\ UNCHANGED <<pvars, rvars>>
SpecBelebele == InitBelebele /\ [][NextBelebele]_vars

----------------------------------------------------------------------------
(* Properties of main() *)

Finished == pc = "done"
MaskCallsOf(r) == {k \in 1..Len(calls) : calls[k].stage = "mask" /\ calls[k].row = r}
FillCallsOf(r) == {k \in 1..Len(calls) : calls[k].stage = "fill" /\ calls[k].row = r}

\* C1 as stated: in every script a completed run over N rows has made exactly
\* 2*N invoke_claude calls, one masking and one filling call per row, with
\* different prompts.
C1_TwoCallsPerRow_AllScripts ==
    Finished =>
        /\ Len(calls) = 2 * Len(df)
        /\ \A r \in 1..Len(df) :
              /\ Cardinality(MaskCallsOf(r)) = 1
              /\ Cardinality(FillCallsOf(r)) = 1
              /\ \A m \in MaskCallsOf(r), f \in FillCallsOf(r) :
                    calls[m].prompt # calls[f].prompt

\* C1 amended: a completed run over N rows makes exactly 2*N calls (one masking,
\* one filling per row, different prompts) in the noun, reverse and
\* multi-language scripts when the mask stage runs; the random script, and the
\* multi-language script on an input that already has 'placeholder_text', make
\* exactly N calls, one filling call per row and no masking call.
C1_CallsPerRow ==
    Finished =>
        IF script \in {"noun", "reverse"} \/ (script = "multi" /\ ~hasPlaceholderCol)
        THEN /\ Len(calls) = 2 * Len(df)
             /\ \A r \in 1..Len(df) :
                   /\ Cardinality(MaskCallsOf(r)) = 1
                   /\ Cardinality(FillCallsOf(r)) = 1
                   /\ \A m \in MaskCallsOf(r), f \in FillCallsOf(r) :
                         calls[m].prompt # calls[f].prompt
        ELSE /\ Len(calls) = Len(df)
             /\ \A r \in 1..Len(df) :
                   /\ MaskCallsOf(r) = {}
                   /\ Cardinality(FillCallsOf(r)) = 1

C1_Witness ==
    /\ Finished
    /\ script = "multi"
    /\ ~hasPlaceholderCol
    /\ Len(df) = 2
    /\ Len(calls) = 4

C3_NoRetry ==
    /\ \A k \in 1..Len(calls) :
          calls[k].status = "raised" =>
              /\ k = Len(calls)
              /\ pc = "failed"
              /\ exc = "invoke_claude error"
              /\ outFile = <<>>
    /\ \A j, k \in 1..Len(calls) :
          (calls[j].stage = calls[k].stage /\ calls[j].row = calls[k].row) => j = k

C3_Witness ==
    /\ pc = "failed"
    /\ Len(df) = 2
    /\ Len(calls) = 1
    /\ calls[1].stage = "mask"
    /\ calls[1].row = 1
    /\ calls[1].status = "raised"

\* C4: at most one call is outstanding; every call but the last has returned;
\* within a stage the calls go through the rows one by one from the first; and
\* the rows keep the order of the input.
C4_Sequential ==
    /\ Cardinality({k \in 1..Len(calls) : calls[k].status = "outstanding"}) <= 1
    /\ \A k \in 1..Len(calls) :
          /\ k < Len(calls) => calls[k].status = "returned"
          /\ IF k > 1 /\ calls[k - 1].stage = calls[k].stage
             THEN calls[k].row = calls[k - 1].row + 1
             ELSE calls[k].row = 1
    /\ \A a, b \in 1..Len(df) : a < b => df[a] < df[b]

C4_Witness ==
    /\ Len(calls) = 2
    /\ calls[1].stage = "mask"
    /\ calls[1].status = "returned"
    /\ calls[2].stage = "mask"
    /\ calls[2].row = 2
    /\ calls[2].status = "outstanding"

Commas(text) == Cardinality({k \in 1..Len(text) : text[k] = ","})
ListsMismatch ==
    script = "multi" /\ Commas(args.target_columns) # Commas(args.target_languages)

\* C7 as stated: in the noun-token scripts a given --sample_size N >= 0 leaves
\* at most N rows, the first N input rows whose de-duplication text has not
\* appeared in an earlier row; without --sample_size every input row is kept.
C7_SampleSizeRows ==
    (script \in {"noun", "reverse", "multi"}
        /\ pc \in {"mask", "mask_call", "fill", "fill_call", "save", "done"}) =>
        LET key(r) == IF script = "reverse" THEN csv[r].tgt ELSE csv[r].src
            first(r) == \A q \in 1..(r - 1) : key(q) # key(r)
            kept == {r \in 1..Len(csv) : first(r)}
        IN  IF ~args.sample_size.given
            THEN df = [k \in 1..Len(csv) |-> k]
            ELSE args.sample_size.n >= 0 =>
                    /\ Len(df) <= args.sample_size.n
                    /\ Len(df) = Min(args.sample_size.n, Cardinality(kept))
                    /\ \A k \in 1..Len(df) :
                          /\ df[k] \in kept
                          /\ Cardinality({r \in kept : r < df[k]}) = k - 1

\* C8 as stated: in the random script a given --sample_size N, whatever the
\* integer, leaves the first N input rows, duplicates kept, so the output has
\* exactly min(N, number of input rows) rows.
C8_RandomFirstN ==
    (script = "random" /\ Finished /\ args.sample_size.given) =>
        /\ Len(outFile) = 1
        /\ [k \in 1..Len(outFile[1]) |-> outFile[1][k].row]
              = [k \in 1..Min(args.sample_size.n, Len(csv)) |-> k]

\* C9: in the multi-language script, when the two lists differ in length the run
\* fails with ValueError and nothing has happened: no directory, no log file, no
\* CSV read, no call, no output.
C9_MismatchFailsEarly ==
    ListsMismatch =>
        /\ pc \in {"start", "failed"}
        /\ pc = "failed" => exc = "ValueError"
        /\ ~dirCreated
        /\ ~logCreated
        /\ ~csvRead
        /\ calls = <<>>
        /\ outFile = <<>>

C9_Witness ==
    /\ ListsMismatch
    /\ pc = "failed"
    /\ exc = "ValueError"
    /\ csv # <<>>

----------------------------------------------------------------------------
(* Properties of insert_placeholders_random *)

Returned == rpc = "returned"
InWords == Split(rtext)
OutWords == Split(rout)
PlaceholdersIn(words) == {k \in 1..Len(words) : words[k] = <<PLACEHOLDER>>}

----------------------------------------------------------------------------
(* Properties of the Belebele table *)

\* C10 as stated: in every row of the combined table the columns of all
\* languages come from records with the same link and of the same question.
C10_BelebeleAligned ==
    \A a, b \in 1..Len(combined_df) :
        \A r \in 1..Len(combined_df[a].rows) :
            /\ combined_df[a].rows[r].link = combined_df[b].rows[r].link
            /\ combined_df[a].rows[r].question = combined_df[b].rows[r].question

====
